---- MODULE Spec2Model ----
\* A model of src/src/lib.rs: start_extraction (the concurrent password search:
\* one spawned task per password, admission behind Mutex<Semaphore>, an atomic
\* stop flag, and an mpsc report channel drained by the caller) and read_config
\* (the clamp of the configured thread count).
EXTENDS Integers, Sequences, FiniteSets, TLC

\* ---------------------------------------------------------------- bounds
MaxCands == 2       \* longest password list explored
MaxTargets == 2     \* longest archive path list explored
MaxThreads == 2     \* largest max_threads passed directly to start_extraction

\* ------------------------------------------------------- program constants
MinThreads == 1         \* read_config: threads < 1 is replaced
MaxConfigThreads == 8   \* read_config: threads > 8 is replaced
U8Max == 255            \* ConfigSettings.threads is a u8

default_threads == 4

\* read_config: a thread count outside 1..8 is replaced by the default.
ReadConfig(threads) ==
    IF threads < MinThreads \/ threads > MaxConfigThreads
    THEN default_threads
    ELSE threads

\* Raw `threads` values of settings.toml that are explored: below the range,
\* inside it, just above it and the largest u8.
RawThreads == {0, MaxThreads, MaxConfigThreads + 1, U8Max}

\* ------------------------------------------------------------------ state
VARIABLES
    passwords,    \* the candidate list, as the set of its indices 1..n
    paths,        \* the target list, as the set of its indices 1..m
    unreadable,   \* targets whose File::open fails
    opens,        \* opens[p]: the candidates whose password decodes target p
    max_threads,  \* the ceiling start_extraction is called with
    mainPc,       \* position of start_extraction itself
    spawned,      \* number of tasks spawned so far by the for loop
    pc,           \* pc[t]: position of the task of candidate t
    idx,          \* idx[t]: index of the target task t is at in `paths.iter()`
    panicked,     \* panicked[t]: "none", or the unwrap that panicked in task t
    lockPermits,  \* the tokio Mutex around the Semaphore: 1 free, 0 locked
    permits,      \* available permits of the Semaphore
    stop_flag,    \* the AtomicBool
    chan,         \* reports queued in the mpsc channel
    senders,      \* live Sender handles (the original tx and the clones)
    rxAlive,      \* the Receiver has not been dropped
    received,     \* the password of the last rx.recv(), 0 before any
    result,       \* how start_extraction ended: "none", "Found", "NotFound"
    lateAttempts, \* history: decode attempts that returned with the flag set
    sent          \* history: sent[t] is the number of reports task t has queued

vars == <<passwords, paths, unreadable, opens, max_threads, mainPc, spawned, pc,
          idx, panicked, lockPermits, permits, stop_flag, chan, senders,
          rxAlive, received, result, lateAttempts, sent>>

inputs == <<passwords, paths, unreadable, opens, max_threads>>

\* ------------------------------------------------------------- primitives
\* tokio's Mutex and Semaphore are both counting semaphores: an acquire
\* completes only when a permit is available.
AcquirableUnchecked(n) == TRUE
Acquirable(n) == n > 0

\* Semaphore::new(max_threads)
SemaphoreNewOffByOne(n) == n - 1
SemaphoreNew(n) == n

\* mpsc::channel::<String>(passwords.len())
ChannelCapacityOffByOne == Cardinality(passwords) - 1
ChannelCapacity == Cardinality(passwords)

\* try_extract_7z_with_password(path, password, dest): File::open(..).unwrap()
\* panics on an unreadable path; otherwise the decoder's Result.
TryExtract(t, p) ==
    IF p \in unreadable THEN "panic"
    ELSE IF t \in opens[p] THEN "ok"
    ELSE "err"

\* `if let Ok(()) = try_extract_7z_with_password(..)`: the position the task
\* body is at after the attempt returned.
AfterDecodeInverted(r) == IF r = "ok" THEN "loop" ELSE "store"
AfterDecode(r) == IF r = "ok" THEN "store" ELSE "loop"

\* stop_flag.store(true, Ordering::Relaxed)
StoreFlagForgotten == FALSE
StoreFlag == TRUE

\* Lines 122-123: after the send, drop(permit) and return.
AfterSendNoReturn == "loop"
AfterSend == "drop_permit"

\* A panic unwinds the task body: the locals are dropped in reverse order,
\* the permit first, then the mutex guard and the captured Sender.
UnwindLeaks == "done"
Unwind == "drop_permit"

\* ------------------------------------------------------------------- Init
Init ==
    /\ passwords \in {1..n : n \in 0..MaxCands}
    /\ paths \in {1..m : m \in 0..MaxTargets}
    /\ unreadable \in SUBSET paths
    /\ opens \in [paths -> SUBSET passwords]
    /\ \A p \in unreadable : opens[p] = {}
    /\ max_threads \in (0..MaxThreads) \cup {ReadConfig(r) : r \in RawThreads}
    /\ mainPc = "start"
    /\ spawned = 0
    /\ pc = [t \in passwords |-> "unspawned"]
    /\ idx = [t \in passwords |-> 1]
    /\ panicked = [t \in passwords |-> "none"]
    /\ lockPermits = 1
    /\ permits = 0
    /\ stop_flag = FALSE
    /\ chan = <<>>
    /\ senders = 0
    /\ rxAlive = FALSE
    /\ received = 0
    /\ result = "none"
    /\ lateAttempts = 0
    /\ sent = [t \in passwords |-> 0]

\* ------------------------------------------------------- start_extraction
\* Lines 98-102: the semaphore, the flag and the channel are created;
\* mpsc::channel panics on a capacity of 0.
Setup ==
    /\ mainPc = "start"
    /\ permits' = SemaphoreNew(max_threads)
    /\ stop_flag' = FALSE
    /\ IF ChannelCapacity = 0
       THEN /\ mainPc' = "panicked"
            /\ UNCHANGED <<senders, rxAlive>>
       ELSE /\ mainPc' = "spawn"
            /\ senders' = 1
            /\ rxAlive' = TRUE
    /\ UNCHANGED <<inputs, lateAttempts, sent, spawned, pc, idx, panicked,
                   lockPermits, chan, received, result>>

\* Lines 104-129: one iteration of `for password in passwords`: tx.clone()
\* and tokio::spawn; after the last one the caller goes on to the receive loop.
Spawn ==
    /\ mainPc = "spawn"
    /\ spawned < Cardinality(passwords)
    /\ spawned' = spawned + 1
    /\ pc' = [pc EXCEPT ![spawned + 1] = "lock"]
    /\ senders' = senders + 1
    /\ mainPc' = IF spawned + 1 = Cardinality(passwords) THEN "recv" ELSE "spawn"
    /\ UNCHANGED <<inputs, lateAttempts, sent, idx, panicked, lockPermits,
                   permits, stop_flag, chan, rxAlive, received, result>>

\* Line 132: rx.recv().await yields a queued report, or None once the queue
\* is empty and every Sender is dropped (the loop ends and the function
\* returns, dropping rx and tx); otherwise it stays suspended.
Recv ==
    /\ mainPc = "recv"
    /\ IF chan # <<>>
       THEN /\ received' = Head(chan)
            /\ chan' = Tail(chan)
            /\ mainPc' = "check"
            /\ UNCHANGED <<result, rxAlive, senders>>
       ELSE /\ senders = 0
            /\ result' = "NotFound"
            /\ mainPc' = "returned"
            /\ rxAlive' = FALSE
            /\ UNCHANGED <<received, chan, senders>>
    /\ UNCHANGED <<inputs, lateAttempts, sent, spawned, pc, idx, panicked,
                   lockPermits, permits, stop_flag>>

\* Lines 134-137: stop_flag.load(); when set, break and return (rx, tx and
\* whatever is still queued are dropped); otherwise receive again.
Check ==
    /\ mainPc = "check"
    /\ IF stop_flag
       THEN /\ result' = "Found"
            /\ mainPc' = "returned"
            /\ rxAlive' = FALSE
            /\ senders' = senders - 1
            /\ chan' = <<>>
       ELSE /\ mainPc' = "recv"
            /\ UNCHANGED <<result, rxAlive, senders, chan>>
    /\ UNCHANGED <<inputs, lateAttempts, sent, spawned, pc, idx, panicked,
                   lockPermits, permits, stop_flag, received>>

\* ---------------------------------------------------------- the task body
\* Line 113: semaphore.lock().await
Lock(t) ==
    /\ pc[t] = "lock"
    /\ Acquirable(lockPermits)
    /\ lockPermits' = lockPermits - 1
    /\ pc' = [pc EXCEPT ![t] = "acquire"]
    /\ UNCHANGED <<inputs, lateAttempts, sent, mainPc, spawned, idx, panicked,
                   permits, stop_flag, chan, senders, rxAlive, received, result>>

\* Line 114: semaphore_ref.acquire().await.unwrap()
Acquire(t) ==
    /\ pc[t] = "acquire"
    /\ Acquirable(permits)
    /\ permits' = permits - 1
    /\ pc' = [pc EXCEPT ![t] = "loop"]
    /\ UNCHANGED <<inputs, lateAttempts, sent, mainPc, spawned, idx, panicked,
                   lockPermits, stop_flag, chan, senders, rxAlive, received,
                   result>>

\* Lines 116-117: the next path of `paths.iter()` is handed to the decoder.
StartAttempt(t) ==
    /\ pc[t] = "loop"
    /\ idx[t] \in paths
    /\ pc' = [pc EXCEPT ![t] = "decode"]
    /\ UNCHANGED <<inputs, lateAttempts, sent, mainPc, spawned, idx, panicked,
                   lockPermits, permits, stop_flag, chan, senders, rxAlive,
                   received, result>>

\* Lines 117, 125: the attempt returns. Ok: go on to lines 118-123. Err: next
\* path. A failed File::open: the unwrap at line 27 panics.
FinishAttempt(t) ==
    /\ pc[t] = "decode"
    /\ LET r == TryExtract(t, idx[t]) IN
       IF r = "panic"
       THEN /\ panicked' = [panicked EXCEPT ![t] = "open"]
            /\ pc' = [pc EXCEPT ![t] = Unwind]
            /\ UNCHANGED idx
       ELSE /\ pc' = [pc EXCEPT ![t] = AfterDecode(r)]
            /\ idx' = IF AfterDecode(r) = "loop"
                      THEN [idx EXCEPT ![t] = idx[t] + 1]
                      ELSE idx
            /\ UNCHANGED panicked
    /\ lateAttempts' = IF stop_flag THEN lateAttempts + 1 ELSE lateAttempts
    /\ UNCHANGED <<inputs, sent, mainPc, spawned, lockPermits, permits,
                   stop_flag, chan, senders, rxAlive, received, result>>

\* Line 120: stop_flag.store(true, Ordering::Relaxed)
Store(t) ==
    /\ pc[t] = "store"
    /\ stop_flag' = StoreFlag
    /\ pc' = [pc EXCEPT ![t] = "send"]
    /\ UNCHANGED <<inputs, lateAttempts, sent, mainPc, spawned, idx, panicked,
                   lockPermits, permits, chan, senders, rxAlive, received,
                   result>>

\* Line 121: tx.send(password).await.unwrap(): an error (the unwrap panics)
\* when the Receiver is gone, queued when there is room, suspended otherwise.
Send(t) ==
    /\ pc[t] = "send"
    /\ IF ~rxAlive
       THEN /\ panicked' = [panicked EXCEPT ![t] = "send"]
            /\ pc' = [pc EXCEPT ![t] = Unwind]
            /\ UNCHANGED <<chan, sent>>
       ELSE /\ Len(chan) < ChannelCapacity
            /\ chan' = Append(chan, t)
            /\ sent' = [sent EXCEPT ![t] = sent[t] + 1]
            /\ pc' = [pc EXCEPT ![t] = AfterSend]
            /\ UNCHANGED panicked
    /\ UNCHANGED <<inputs, lateAttempts, mainPc, spawned, idx, lockPermits,
                   permits, stop_flag, senders, rxAlive, received, result>>

\* Lines 116, 127: `paths.iter()` is exhausted; the task goes on to drop(permit).
Exhausted(t) ==
    /\ pc[t] = "loop"
    /\ idx[t] \notin paths
    /\ pc' = [pc EXCEPT ![t] = "drop_permit"]
    /\ UNCHANGED <<inputs, lateAttempts, sent, mainPc, spawned, idx, panicked,
                   lockPermits, permits, stop_flag, chan, senders, rxAlive,
                   received, result>>

\* Lines 122, 127 (and the unwinding of a panic): the SemaphorePermit is
\* dropped and its permit returns to the semaphore.
DropPermit(t) ==
    /\ pc[t] = "drop_permit"
    /\ permits' = permits + 1
    /\ pc' = [pc EXCEPT ![t] = "exit"]
    /\ UNCHANGED <<inputs, lateAttempts, sent, mainPc, spawned, idx, panicked,
                   lockPermits, stop_flag, chan, senders, rxAlive, received,
                   result>>

\* Lines 123, 128: the task ends; the MutexGuard (semaphore_ref) and the
\* captured Sender clone are dropped.
Exit(t) ==
    /\ pc[t] = "exit"
    /\ lockPermits' = lockPermits + 1
    /\ senders' = senders - 1
    /\ pc' = [pc EXCEPT ![t] = "done"]
    /\ UNCHANGED <<inputs, lateAttempts, sent, mainPc, spawned, idx, panicked,
                   permits, stop_flag, chan, rxAlive, received, result>>

TaskStep(t) ==
    \/ Lock(t)
    \/ Acquire(t)
    \/ StartAttempt(t)
    \/ FinishAttempt(t)
    \/ Store(t)
    \/ Send(t)
    \/ Exhausted(t)
    \/ DropPermit(t)
    \/ Exit(t)

MainStep == Setup \/ Spawn \/ Recv \/ Check

Next ==
    \/ Setup
    \/ Spawn
    \/ Recv
    \/ Check
    \/ \E t \in passwords : Lock(t)
    \/ \E t \in passwords : Acquire(t)
    \/ \E t \in passwords : StartAttempt(t)
    \/ \E t \in passwords : FinishAttempt(t)
    \/ \E t \in passwords : Store(t)
    \/ \E t \in passwords : Send(t)
    \/ \E t \in passwords : Exhausted(t)
    \/ \E t \in passwords : DropPermit(t)
    \/ \E t \in passwords : Exit(t)

Spec == Init /\ [][Next]_vars

\* The tokio runtime keeps polling every runnable task and the caller, and a
\* decode attempt returns: each process takes its next step when it can.
FairSpec ==
    /\ Spec
    /\ WF_vars(MainStep)
    /\ \A t \in 1..MaxCands : WF_vars(t \in passwords /\ TaskStep(t))

\* ------------------------------------------------------------ vocabulary
TypeOK ==
    /\ mainPc \in {"start", "spawn", "recv", "check", "returned", "panicked"}
    /\ spawned \in 0..Cardinality(passwords)
    /\ pc \in [passwords -> {"unspawned", "lock", "acquire", "loop", "decode",
                             "store", "send", "drop_permit", "exit", "done"}]
    /\ panicked \in [passwords -> {"none", "open", "send"}]
    /\ lockPermits \in 0..1
    /\ permits \in 0..max_threads
    /\ stop_flag \in BOOLEAN
    /\ senders \in 0..(Cardinality(passwords) + 1)
    /\ result \in {"none", "Found", "NotFound"}

\* Tasks that have acquired a permit and not yet released it.
PermitHolders == {t \in passwords : pc[t] \in {"loop", "decode", "store", "send", "drop_permit"}}

\* Tasks that have been spawned.
SpawnedTasks == {t \in passwords : pc[t] # "unspawned"}

\* Tasks that hold the MutexGuard.
GuardHolders == {t \in passwords : pc[t] \in {"acquire", "loop", "decode", "store", "send", "drop_permit", "exit"}}

\* Every spawned task has ended.
AllTasksDone == mainPc \in {"recv", "check", "returned"} /\ \A t \in passwords : pc[t] = "done"

\* Some candidate opens some target.
SomeOpens == \E p \in paths : opens[p] # {}

\* Candidate c is the one correct password and every target requires it.
OnlyCorrect(c) == paths # {} /\ unreadable = {} /\ \A p \in paths : opens[p] = {c}

ExactlyOneCorrect == \E c \in passwords : OnlyCorrect(c)

TheCorrect ==
    IF ExactlyOneCorrect THEN CHOOSE c \in passwords : OnlyCorrect(c) ELSE 0

\* ------------------------------------------------------------------ claims

\* C1: with a ceiling of at least 1, the number of tasks that have acquired a
\* permit and not yet released it never exceeds max_threads.
C1_PermitsBounded ==
    max_threads >= 1 => Cardinality(PermitHolders) <= max_threads

\* A task holds the only permit of a ceiling of 1 while another task is
\* waiting for admission.
C1_Witness ==
    /\ max_threads = 1
    /\ Cardinality(PermitHolders) = 1
    /\ \E t \in passwords : pc[t] = "lock"

\* C2: once the stop flag is set, no task starts a new decode attempt.
C2_NoAttemptAfterStop ==
    [][\A t \in passwords :
          (stop_flag /\ pc[t] = "loop") => pc'[t] # "decode"]_vars

\* C3: when no candidate opens any target (non-empty lists, a ceiling of at
\* least 1, every target readable), the run eventually returns NotFound, with
\* every task completed.
C3_NotFoundTerminates ==
    (passwords # {} /\ paths # {} /\ max_threads >= 1 /\ unreadable = {}
        /\ ~SomeOpens)
        => <>(result = "NotFound" /\ \A t \in passwords : pc[t] = "done")

\* C4: when exactly one candidate is correct and every target requires it
\* (a ceiling of at least 1), the run eventually returns Found on that
\* candidate; and a run never ends as Found on a candidate that opens nothing.
C4_FoundCorrect ==
    /\ (ExactlyOneCorrect /\ max_threads >= 1)
          => <>(mainPc = "returned" /\ result = "Found" /\ received = TheCorrect)
    /\ [](result = "Found" => \E p \in paths : received \in opens[p])

\* The run has returned Found on the one correct candidate of a list of
\* several.
C4_Witness ==
    /\ ExactlyOneCorrect
    /\ max_threads >= 1
    /\ Cardinality(passwords) >= 2
    /\ mainPc = "returned"
    /\ result = "Found"
    /\ received = TheCorrect

\* C5: a task that succeeds after the aggregator has returned completes its
\* report step normally: no task fails (panics) on its send.
C5_LateReportHarmless ==
    \A t \in passwords : panicked[t] # "send"

\* C6: no task is spawned while the ceiling is 0.
C6_ZeroCeilingRejected ==
    max_threads = 0 => SpawnedTasks = {}

\* C7: the permit and the admission lock are returned on every exit path of
\* a task: the permits not held by a running task are all available, the lock
\* is free when no running task holds it, and so once all tasks have ended
\* max_threads permits are available and the lock is free.
C7_SlotReturned ==
    mainPc \in {"spawn", "recv", "check", "returned"} =>
        /\ permits + Cardinality(PermitHolders) = max_threads
        /\ lockPermits + Cardinality(GuardHolders) = 1
        /\ AllTasksDone => (permits = max_threads /\ lockPermits = 1)

\* All tasks have ended, one of them by a panic and another one normally.
C7_Witness ==
    /\ AllTasksDone
    /\ \E t \in passwords : panicked[t] # "none"
    /\ \E t \in passwords : panicked[t] = "none"

\* C8: a decode attempt that fails for any reason, on a target that is not
\* the last one, is followed by the next target of the same task.
C8_FailureContinues ==
    [][\A t \in passwords :
          (/\ pc[t] = "decode"
           /\ pc'[t] # "decode"
           /\ t \notin opens[idx[t]]
           /\ idx[t] + 1 \in paths)
              => (pc'[t] = "loop" /\ idx'[t] = idx[t] + 1)]_vars

\* C9: the stop flag starts false, is never reset once true, and is set only
\* by a task whose decode attempt succeeded.
C9_FlagMonotonic ==
    /\ ~stop_flag
    /\ [][/\ stop_flag => stop_flag'
          /\ (~stop_flag /\ stop_flag') =>
                \E t \in passwords :
                    /\ pc[t] = "store"
                    /\ pc'[t] = "send"
                    /\ TryExtract(t, idx[t]) = "ok"]_vars

\* The flag is set and a later task is in a decode attempt.
C9_Witness ==
    /\ stop_flag
    /\ \E t \in passwords : pc[t] = "decode"

\* C10: every interleaving of a run (non-empty lists, a ceiling of at least
\* 1, every target readable) ends in Found when some candidate opens some
\* target and in NotFound otherwise.
C10_OutcomeByInputs ==
    (passwords # {} /\ paths # {} /\ max_threads >= 1 /\ unreadable = {})
        => <>(mainPc = "returned"
              /\ result = (IF SomeOpens THEN "Found" ELSE "NotFound"))

\* C11: with a ceiling of 1, when the first candidate opens the first target,
\* no decode attempt with any later candidate is ever made.
C11_NoLaterCandidateAttempted ==
    (max_threads = 1 /\ 1 \in passwords /\ 1 \in paths /\ unreadable = {}
        /\ 1 \in opens[1])
        => \A t \in passwords : t > 1 => pc[t] # "decode"

\* C12: the reports queued in the channel never exceed its capacity, the
\* number of candidates, and a task at its send while the receiver is alive
\* finds room: it is not suspended on capacity.
C12_SendNeverBlocks ==
    mainPc \notin {"start", "panicked"} =>
        /\ Len(chan) <= ChannelCapacity
        /\ \A t \in passwords :
              (pc[t] = "send" /\ rxAlive) => Len(chan) < ChannelCapacity

\* A task is at its send while an earlier report is still queued and the
\* receiver is alive.
C12_Witness ==
    /\ rxAlive
    /\ Len(chan) >= 1
    /\ \E t \in passwords : pc[t] = "send"

\* Decode attempts in flight while the flag is set.
LateInFlight == {t \in passwords : stop_flag /\ pc[t] = "decode"}

\* C13: the number of decode attempts that start or complete after the stop
\* flag has been set is at most max_threads - 1.
C13_WastedWorkBounded ==
    max_threads >= 1 =>
        lateAttempts + Cardinality(LateInFlight) <= max_threads - 1

\* C14: with a ceiling of at least 1 and fair scheduling, every task is
\* eventually spawned, admitted and ended, whether or not the caller has
\* already returned; a task leaves its wait for the lock only by taking the
\* lock, and its wait for a permit only by taking a permit.
C14_EveryTaskTerminates ==
    /\ (passwords # {} /\ max_threads >= 1)
          => <>(\A t \in passwords : pc[t] = "done")
    /\ [][\A t \in passwords :
            /\ (pc[t] = "lock" /\ pc'[t] # "lock")
                  => (pc'[t] = "acquire" /\ lockPermits' = lockPermits - 1)
            /\ (pc[t] = "acquire" /\ pc'[t] # "acquire")
                  => (pc'[t] = "loop" /\ permits' = permits - 1)]_vars

\* Every task has ended, one of them after the caller had returned (its
\* send found the receiver gone).
C14_Witness ==
    /\ max_threads >= 1
    /\ mainPc = "returned"
    /\ \A t \in passwords : pc[t] = "done"
    /\ \E t \in passwords : panicked[t] = "send"

\* C15: once a report has been received, the caller's next step is its
\* return, whatever the other tasks are doing; the returned state is final.
C15_ReturnsWithoutWaiting ==
    [][/\ mainPc = "check" => mainPc' \in {"check", "returned"}
       /\ mainPc = "returned" => (mainPc' = "returned" /\ result' = result)]_vars

\* The caller has returned Found while one task still holds its permit and
\* another one is still waiting for admission.
C15_Witness ==
    /\ mainPc = "returned"
    /\ result = "Found"
    /\ \E t \in passwords : pc[t] = "lock"
    /\ \E t \in passwords : pc[t] = "drop_permit"

\* Positions of a task that has left its loop over the targets.
AfterLoop == {"store", "send", "drop_permit", "exit", "done"}

\* C16: a task attempts the targets one after the other in list order, stops
\* at its first success, and sends at most one report.
C16_SequentialSingleReport ==
    /\ [](\A t \in passwords : sent[t] <= 1)
    /\ [][\A t \in passwords :
            /\ idx'[t] # idx[t]
                  => (idx'[t] = idx[t] + 1 /\ pc[t] = "decode" /\ pc'[t] = "loop")
            /\ (pc'[t] = "decode" /\ pc[t] # "decode")
                  => (pc[t] = "loop" /\ idx[t] \in paths)
            /\ pc[t] \in AfterLoop => pc'[t] \in AfterLoop]_vars

\* A task has ended after one report, sent on a target that is not the last.
C16_Witness ==
    \E t \in passwords :
        /\ pc[t] = "done"
        /\ sent[t] = 1
        /\ idx[t] + 1 \in paths

\* C17: at most one task holds the mutex guard at any time, for every
\* max_threads: decode attempts never overlap, and while a task waits for a
\* permit no other task is admitted.
C17_OneTaskAtATime ==
    /\ Cardinality(GuardHolders) <= 1
    /\ Cardinality({t \in passwords : pc[t] = "decode"}) <= 1
    /\ \A t \in passwords :
          pc[t] = "acquire" =>
              \A u \in passwords \ {t} : pc[u] \in {"unspawned", "lock", "done"}

\* A task is in a decode attempt and another one waits for the lock, although
\* the ceiling is above 1 and a permit is available.
C17_Witness ==
    /\ max_threads >= 2
    /\ permits >= 1
    /\ \E t \in passwords : pc[t] = "decode"
    /\ \E t \in passwords : pc[t] = "lock"

\* C18: whenever a report is queued or has just been received, the stop flag
\* is already true.
C18_FlagSetBeforeReport ==
    (chan # <<>> \/ mainPc = "check") => stop_flag

\* The caller has received a report and is about to load the flag.
C18_Witness ==
    /\ mainPc = "check"
    /\ received \in passwords
    /\ stop_flag

\* C19: a run with an empty candidate list does not fail: creating the
\* channel does not abort it.
C19_EmptyListNotFound ==
    passwords = {} => mainPc # "panicked"

====
